---- MODULE Spec2Model ----
(***************************************************************************)
(* State-machine model of the store back end: the cart ledger              *)
(* (app/api/cart), the checkout engine (app/api/orders), and the category  *)
(* tree with its admin/manager gate (app/api/categories, middleware).      *)
(*                                                                         *)
(* Money is modelled with integers.  Product prices are multiples of 100   *)
(* so that the percentage discount  subtotal * value / 100  is exact.      *)
(***************************************************************************)
EXTENDS Integers, Sequences, FiniteSets, TLC

\* ------------------------------------------------------------------------
\* Bounds of the model
\* ------------------------------------------------------------------------
MaxOrders == 2        \* concurrent shoppers: orders created plus in flight
MaxCheckouts == 1     \* single shopper: orders created plus in flight
MaxNegQty == 1        \* a cart line is not driven below -MaxNegQty
MaxAddresses == 1     \* billing-address copies created per user
MaxPriceEdits == 1    \* price edits made to the catalogue
MaxTotal == 900       \* a stored cart total is kept within -MaxTotal..MaxTotal
MaxTokens == 1        \* unexpired access tokens at one time

NULL == "null"
Categories == {"A", "B", "C"}
NoSession == "anonymous"

Users == {"u1", "u2"}
Products == {"p1", "p2"}
UnknownProduct == "p9"
Shopper == {"u1"}
ProductIds == Products \cup {UnknownProduct}
AddQuantities == {-1, 0, 1, 2}
Prices == {100, 200}
PutQuantities == {-1, 0, 1, 2}

VARIABLES
    carts,          \* Cart and CartItem rows, per user
    product,        \* Product rows: price, stock, isActive
    priceEdits,     \* number of price edits made to the catalogue so far
    inventoryLogs,  \* InventoryLog rows per product, in primary-key order
    orders,         \* Order rows with their OrderItems and Payment
    addresses,      \* number of Address rows created per user by checkout
    pc,             \* position of each user's checkout request
    ck,             \* what the in-flight checkout request has read/computed
    resp,           \* the last HTTP response sent
    parent,         \* Category.parentId, per category
    userRows,       \* User rows: role, isActive
    issued,         \* access tokens signed by login and not yet expired
    served,         \* what the last gated request was answered
    wishlists,      \* Wishlist rows (by user) and WishlistItem rows
    cookies,        \* the accessToken and refreshToken cookies of a browser
    inflight        \* requests between their store calls, and the CartItem
                    \* rows they created next to a row of the product

\* the state of the account routes, left alone by the shop's handlers
accounts == <<userRows, issued, served, cookies, inflight>>

vars == <<carts, product, priceEdits, inventoryLogs, orders, addresses, pc, ck,
          resp, parent, accounts,
                   wishlists>>

\* ------------------------------------------------------------------------
\* Helpers
\* ------------------------------------------------------------------------
RECURSIVE SumOver(_, _)
SumOver(S, f) ==
    IF S = {} THEN 0
    ELSE LET x == CHOOSE y \in S : TRUE
         IN  f[x] + SumOver(S \ {x}, f)

Min(a, b) == IF a <= b THEN a ELSE b
Max(a, b) == IF a >= b THEN a ELSE b

Absent == [present |-> FALSE, quantity |-> 0, priceAtTime |-> 0]
NoCart == [exists |-> FALSE, total |-> 0, items |-> [p \in Products |-> Absent]]
EmptyCart == [exists |-> TRUE, total |-> 0, items |-> [p \in Products |-> Absent]]

NoCheckout ==
    [items |-> [p \in Products |-> Absent], subtotal |-> 0, discount |-> 0,
     couponCode |-> NULL, shippingOk |-> TRUE]

Lines(cart) == {p \in Products : cart.items[p].present}

\* cart.items.reduce((sum, item) => sum + item.priceAtTime * item.quantity, 0)
ItemsTotal(cart) ==
    SumOver(Lines(cart),
            [p \in Products |-> cart.items[p].priceAtTime * cart.items[p].quantity])

Response(op, user, status) ==
    [op |-> op, user |-> user, status |-> status, outOfStock |-> {}]

\* ------------------------------------------------------------------------
\* Cart ledger: each handler as a function of the stored cart
\* ------------------------------------------------------------------------

\* prisma.cart.findUnique(...) ; if (!cart) prisma.cart.create({total: 0})
FindOrCreateCart(cart) == IF cart.exists THEN cart ELSE EmptyCart

\* POST /api/cart
AddItem(cart0, p, q) ==
    LET cart == FindOrCreateCart(cart0) IN
    IF p = NULL THEN [cart |-> cart0, status |-> 400]
    ELSE IF p \notin Products \/ ~product[p].isActive
         THEN [cart |-> cart, status |-> 404]
    ELSE IF product[p].stock < q THEN [cart |-> cart, status |-> 400]
    ELSE IF cart.items[p].present
         THEN LET newQuantity == cart.items[p].quantity + q IN
              IF product[p].stock < newQuantity
              THEN [cart |-> cart, status |-> 400]
              ELSE [cart |-> [cart EXCEPT
                                !.items[p].quantity = newQuantity,
                                !.total = cart.total + product[p].price * q],
                    status |-> 200]
    ELSE [cart |-> [cart EXCEPT
                      !.items[p] = [present |-> TRUE, quantity |-> q,
                                    priceAtTime |-> product[p].price],
                      !.total = cart.total + product[p].price * q],
          status |-> 200]

\* DELETE /api/cart
RemoveItem(cart, p) ==
    IF p = NULL THEN [cart |-> cart, status |-> 400]
    ELSE IF ~cart.exists THEN [cart |-> cart, status |-> 404]
    ELSE IF p \notin Products \/ ~cart.items[p].present
         THEN [cart |-> cart, status |-> 404]
    ELSE LET priceToSubtract == cart.items[p].priceAtTime * cart.items[p].quantity
         IN  [cart |-> [cart EXCEPT
                          !.items[p] = Absent,
                          !.total = Max(0, cart.total - priceToSubtract)],
              status |-> 200]

\* variant: the difference is priced at the product's live price
SetQuantityAtLivePrice(cart, p, q) ==
    IF p = NULL \/ q < 0 THEN [cart |-> cart, status |-> 400]
    ELSE IF ~cart.exists THEN [cart |-> cart, status |-> 404]
    ELSE IF p \notin Products \/ ~cart.items[p].present
         THEN [cart |-> cart, status |-> 404]
    ELSE IF q = 0 THEN RemoveItem(cart, p)
    ELSE IF product[p].stock < q THEN [cart |-> cart, status |-> 400]
    ELSE LET priceDifference == (q - cart.items[p].quantity) * product[p].price
         IN  [cart |-> [cart EXCEPT
                          !.items[p].quantity = q,
                          !.total = cart.total + priceDifference],
              status |-> 200]

\* PUT /api/cart
SetQuantity(cart, p, q) ==
    IF p = NULL \/ q < 0 THEN [cart |-> cart, status |-> 400]
    ELSE IF ~cart.exists THEN [cart |-> cart, status |-> 404]
    ELSE IF p \notin Products \/ ~cart.items[p].present
         THEN [cart |-> cart, status |-> 404]
    ELSE IF q = 0 THEN RemoveItem(cart, p)
    ELSE IF product[p].stock < q THEN [cart |-> cart, status |-> 400]
    ELSE LET priceDifference ==
                 (q - cart.items[p].quantity) * cart.items[p].priceAtTime
         IN  [cart |-> [cart EXCEPT
                          !.items[p].quantity = q,
                          !.total = cart.total + priceDifference],
              status |-> 200]

\* DELETE /api/cart/clear
ClearCart(cart) ==
    IF ~cart.exists THEN [cart |-> cart, status |-> 200]
    ELSE [cart |-> EmptyCart, status |-> 200]

\* GET /api/cart
ViewCart(cart) ==
    IF ~cart.exists THEN [cart |-> EmptyCart, status |-> 200]
    ELSE [cart |-> [cart EXCEPT !.total = ItemsTotal(cart)], status |-> 200]

\* ------------------------------------------------------------------------
\* Cart ledger: the handlers store call by store call.  A request reads the
\* cart (findUnique), decides on what it read, and then writes: POST and PUT
\* with one cart.update, DELETE with cartItem.delete and then cart.update.
\* ------------------------------------------------------------------------
Slots == {1, 2}

NotSent == [op |-> "none", productId |-> NULL, quantity |-> 0, stage |-> "done",
            cart |-> NoCart]
NoRequests == [reqs |-> [s \in Slots |-> NotSent], twins |-> {}]

Sent(op, p, q) ==
    [op |-> op, productId |-> p, quantity |-> q, stage |-> "start", cart |-> NoCart]

RaceFrame ==
    UNCHANGED <<product, priceEdits, inventoryLogs, orders, addresses, pc, ck,
                parent, userRows, issued, served, cookies, wishlists>>

\* what the handler decides on the cart it read
Decided(r) ==
    IF r.op = "POST" THEN AddItem(r.cart, r.productId, r.quantity)
    ELSE IF r.op = "PUT" THEN SetQuantity(r.cart, r.productId, r.quantity)
    ELSE RemoveItem(r.cart, r.productId)

Answer(u, s, r, status) ==
    /\ resp' = Response("cart." \o r.op, u, status)
    /\ inflight' = [inflight EXCEPT !.reqs[s].stage = "done", !.reqs[s].cart = NoCart]

\* prisma.cart.findUnique({userId, include items}) and the checks that follow
\* it; PUT with quantity 0 calls DELETE, which reads the cart again
CartRead(u, s) ==
    LET r == [inflight.reqs[s] EXCEPT !.cart = carts[u]] IN
    /\ inflight.reqs[s].stage = "start"
    /\ IF Decided(r).status # 200 THEN Answer(u, s, r, Decided(r).status)
       ELSE IF r.op = "PUT" /\ r.quantity = 0
       THEN /\ inflight' = [inflight EXCEPT !.reqs[s] = Sent("DELETE", r.productId, 0)]
            /\ UNCHANGED resp
       ELSE /\ inflight' = [inflight EXCEPT !.reqs[s] = [r EXCEPT !.stage = "read"]]
            /\ UNCHANGED resp
    /\ UNCHANGED carts
    /\ RaceFrame

\* prisma.cart.update of POST and PUT: the line's row is updated by its id or
\* created, and total is set to the total that was read plus the difference.
\* Updating a row that is gone throws (500).  Creating a row for a product
\* that has got one meanwhile either throws on a unique index or adds a
\* second row: the schema is not part of the sources.
CartUpdate(u, s) ==
    LET r == inflight.reqs[s]
        p == r.productId
        new == Decided(r).cart
        written == [carts[u] EXCEPT !.items[p] = new.items[p], !.total = new.total]
    IN
    /\ r.stage = "read"
    /\ r.op \in {"POST", "PUT"}
    /\ IF r.cart.items[p].present
       THEN IF carts[u].items[p].present
            THEN carts' = [carts EXCEPT ![u] = written] /\ Answer(u, s, r, 200)
            ELSE UNCHANGED carts /\ Answer(u, s, r, 500)
       ELSE IF ~carts[u].items[p].present
            THEN carts' = [carts EXCEPT ![u] = written] /\ Answer(u, s, r, 200)
            ELSE \/ UNCHANGED carts /\ Answer(u, s, r, 500)
                 \/ /\ carts' = [carts EXCEPT ![u].total = new.total]
                    /\ resp' = Response("cart." \o r.op, u, 200)
                    /\ inflight' =
                          [inflight EXCEPT
                             !.reqs[s].stage = "done", !.reqs[s].cart = NoCart,
                             !.twins = @ \cup {[productId |-> p,
                                                quantity |-> new.items[p].quantity,
                                                priceAtTime |-> new.items[p].priceAtTime]}]
    /\ RaceFrame

\* prisma.cartItem.delete({id}) of DELETE: throws (500) when the row is gone
CartItemDelete(u, s) ==
    LET r == inflight.reqs[s]
        p == r.productId
    IN
    /\ r.stage = "read"
    /\ r.op = "DELETE"
    /\ IF carts[u].items[p].present
       THEN /\ carts' = [carts EXCEPT ![u].items[p] = Absent]
            /\ inflight' = [inflight EXCEPT !.reqs[s].stage = "deleted"]
            /\ UNCHANGED resp
       ELSE UNCHANGED carts /\ Answer(u, s, r, 500)
    /\ RaceFrame

\* prisma.cart.update({total: Math.max(0, cart.total - priceToSubtract)}) of
\* DELETE, on the total that was read
CartTotalUpdate(u, s) ==
    LET r == inflight.reqs[s] IN
    /\ r.stage = "deleted"
    /\ carts' = [carts EXCEPT ![u].total = Decided(r).cart.total]
    /\ Answer(u, s, r, 200)
    /\ RaceFrame

\* ------------------------------------------------------------------------
\* Cart ledger: the requests
\* ------------------------------------------------------------------------
\* The cart handlers read the Product row afresh on every request.  Between
\* two requests the catalogue's maintainer rewrites the price column of a row
\* (product.update with data.price); the product routes themselves answer
\* every caller at their gate, see IsAdminUser below.
PriceChange(p, price) ==
    /\ priceEdits < MaxPriceEdits
    /\ price # product[p].price
    /\ product' = [product EXCEPT ![p].price = price]
    /\ priceEdits' = priceEdits + 1
    /\ UNCHANGED <<carts, inventoryLogs, orders, addresses, pc, ck, resp, parent,
                   accounts,
                   wishlists>>

CartFrame ==
    UNCHANGED <<product, priceEdits, inventoryLogs, orders, addresses, pc, ck,
                parent, accounts,
                   wishlists>>

Unauthorized(op) ==
    /\ resp' = Response(op, NoSession, 401)
    /\ UNCHANGED carts

Apply(op, s, r) ==
    /\ r.cart.total >= -MaxTotal /\ r.cart.total <= MaxTotal
    /\ carts' = [carts EXCEPT ![s] = r.cart]
    /\ resp' = Response(op, s, r.status)

CartPost(s, p, q) ==
    /\ p \in Products /\ carts[s].items[p].present
         => carts[s].items[p].quantity + q >= -MaxNegQty
    /\ Apply("cart.POST", s, AddItem(carts[s], p, q))

\* Each request is drawn from the sessions S, product ids P and quantities Q
\* of the scenario that is explored.
CartAddBy(S, P, Q) ==
    /\ \E s \in S, p \in P, q \in Q :
          IF s = NoSession THEN Unauthorized("cart.POST") ELSE CartPost(s, p, q)
    /\ CartFrame

CartPutBy(S, P, Q) ==
    /\ \E s \in S, p \in P, q \in Q :
          IF s = NoSession THEN Unauthorized("cart.PUT")
          ELSE Apply("cart.PUT", s, SetQuantity(carts[s], p, q))
    /\ CartFrame

CartDeleteBy(S, P) ==
    /\ \E s \in S, p \in P :
          IF s = NoSession THEN Unauthorized("cart.DELETE")
          ELSE Apply("cart.DELETE", s, RemoveItem(carts[s], p))
    /\ CartFrame

CartClearBy(S) ==
    /\ \E s \in S :
          IF s = NoSession THEN Unauthorized("cart.clear")
          ELSE Apply("cart.clear", s, ClearCart(carts[s]))
    /\ CartFrame

CartGetBy(S) ==
    /\ \E s \in S :
          IF s = NoSession THEN Unauthorized("cart.GET")
          ELSE Apply("cart.GET", s, ViewCart(carts[s]))
    /\ CartFrame

\* ------------------------------------------------------------------------
\* Checkout engine: POST /api/orders
\* ------------------------------------------------------------------------
Coupons ==
    { [code |-> "PCT",  isActive |-> TRUE,  expired |-> FALSE,
       hasMinPurchase |-> FALSE, minPurchase |-> 0,
       discountType |-> "PERCENTAGE", discountValue |-> 50],
      [code |-> "FIX",  isActive |-> TRUE,  expired |-> FALSE,
       hasMinPurchase |-> FALSE, minPurchase |-> 0,
       discountType |-> "FIXED", discountValue |-> 150],
      [code |-> "MIN",  isActive |-> TRUE,  expired |-> FALSE,
       hasMinPurchase |-> TRUE, minPurchase |-> 200,
       discountType |-> "FIXED", discountValue |-> 100],
      [code |-> "OFF",  isActive |-> FALSE, expired |-> FALSE,
       hasMinPurchase |-> FALSE, minPurchase |-> 0,
       discountType |-> "FIXED", discountValue |-> 100],
      [code |-> "EXP",  isActive |-> TRUE,  expired |-> TRUE,
       hasMinPurchase |-> FALSE, minPurchase |-> 0,
       discountType |-> "PERCENTAGE", discountValue |-> 50] }

\* the result of a lookup that finds no row
NoCoupon ==
    [code |-> NULL, isActive |-> FALSE, expired |-> FALSE,
     hasMinPurchase |-> FALSE, minPurchase |-> 0,
     discountType |-> "FIXED", discountValue |-> 0]

CouponCodes == {NULL, "PCT", "FIX", "MIN", "OFF", "EXP", "NOPE"}

\* item.product.inventoryLogs.reduce(...): STOCK_IN adds, every other type
\* subtracts
RECURSIVE CurrentStock(_)
CurrentStock(logs) ==
    IF logs = <<>> THEN 0
    ELSE LET log == logs[Len(logs)]
             rest == CurrentStock(SubSeq(logs, 1, Len(logs) - 1))
         IN  IF log.type = "STOCK_IN" THEN rest + log.quantity
             ELSE rest - log.quantity

\* variant: the loop stops at the first line that is short of stock
OutOfStockItemsFirstOnly(cart) ==
    LET short == {p \in Lines(cart) :
                     cart.items[p].quantity > CurrentStock(inventoryLogs[p])}
    IN  IF short = {} THEN {} ELSE {CHOOSE p \in short : TRUE}

\* the loop that fills outOfStockItems
OutOfStockItems(cart) ==
    {p \in Lines(cart) : cart.items[p].quantity > CurrentStock(inventoryLogs[p])}

\* (item.priceAtTime || item.product.price) * item.quantity, summed
Subtotal(cart) ==
    SumOver(Lines(cart),
            [p \in Products |->
               (IF cart.items[p].priceAtTime # 0 THEN cart.items[p].priceAtTime
                ELSE product[p].price) * cart.items[p].quantity])

\* prisma.coupon.findFirst({code, isActive, not expired,
\*                           minPurchase <= subtotal or minPurchase null})
FindCoupon(code, subtotal) ==
    LET matching == {c \in Coupons : /\ c.code = code
                                     /\ c.isActive
                                     /\ ~c.expired
                                     /\ (~c.hasMinPurchase
                                           \/ c.minPurchase <= subtotal)}
    IN  IF matching = {} THEN NoCoupon ELSE CHOOSE c \in matching : TRUE

\* coupon.discountType === "PERCENTAGE" ? subtotal * value / 100
\*                                       : Math.min(value, subtotal)
DiscountAmount(coupon, subtotal) ==
    IF coupon.discountType = "PERCENTAGE"
    THEN (subtotal * coupon.discountValue) \div 100
    ELSE Min(coupon.discountValue, subtotal)

ShippingFee == 0
Tax == 0

\* variant: the order total leaves the discount out
NewOrderUndiscounted(u, c) ==
    LET grandTotal == c.subtotal + ShippingFee + Tax
    IN  [userId |-> u, status |-> "PENDING",
         subtotal |-> c.subtotal, discount |-> c.discount,
         tax |-> Tax, shippingFee |-> ShippingFee, total |-> grandTotal,
         items |-> {[productId |-> p, quantity |-> c.items[p].quantity,
                     price |-> product[p].price] :
                       p \in {x \in Products : c.items[x].present}},
         paymentAmount |-> grandTotal,
         shippedAt |-> NULL, deliveredAt |-> NULL, cancelledAt |-> NULL]

\* the order row, its items and its payment, as order.create writes them
NewOrder(u, c) ==
    LET total == c.subtotal - c.discount
        grandTotal == total + ShippingFee + Tax
    IN  [userId |-> u, status |-> "PENDING",
         subtotal |-> c.subtotal, discount |-> c.discount,
         tax |-> Tax, shippingFee |-> ShippingFee, total |-> grandTotal,
         items |-> {[productId |-> p, quantity |-> c.items[p].quantity,
                     price |-> product[p].price] :
                       p \in {x \in Products : c.items[x].present}},
         paymentAmount |-> grandTotal,
         shippedAt |-> NULL, deliveredAt |-> NULL, cancelledAt |-> NULL]

\* inventoryLog.findFirst({productId}) then update quantity: {decrement}
DecrementFirstLog(logs, q) ==
    IF logs = <<>> THEN logs
    ELSE [logs EXCEPT ![1].quantity = logs[1].quantity - q]

\* variant: the transaction reads the ledger again and throws when a line
\* is no longer covered
TxBodyRecheck(store, u, c, failAt) ==
    LET short == \E p \in Products :
                    /\ c.items[p].present
                    /\ c.items[p].quantity > CurrentStock(store.inventoryLogs[p])
        orderFails == failAt = 1 \/ ~c.shippingOk \/ short
        s1 == [store EXCEPT !.orders = Append(store.orders, NewOrder(u, c))]
        s2 == [s1 EXCEPT !.inventoryLogs =
                  [p \in Products |->
                     IF c.items[p].present
                     THEN DecrementFirstLog(s1.inventoryLogs[p], c.items[p].quantity)
                     ELSE s1.inventoryLogs[p]]]
        s3 == [s2 EXCEPT !.carts[u].items = [p \in Products |-> Absent]]
    IN  IF orderFails THEN [store |-> store, ok |-> FALSE]
        ELSE IF failAt = 2 THEN [store |-> s1, ok |-> FALSE]
        ELSE IF failAt = 3 THEN [store |-> s2, ok |-> FALSE]
        ELSE [store |-> s3, ok |-> TRUE]

\* the body of prisma.$transaction, run on a private copy of the store;
\* failAt names the statement that throws (0: none)
TxBody(store, u, c, failAt) ==
    LET orderFails == failAt = 1 \/ ~c.shippingOk
        s1 == [store EXCEPT !.orders = Append(store.orders, NewOrder(u, c))]
        s2 == [s1 EXCEPT !.inventoryLogs =
                  [p \in Products |->
                     IF c.items[p].present
                     THEN DecrementFirstLog(s1.inventoryLogs[p], c.items[p].quantity)
                     ELSE s1.inventoryLogs[p]]]
        s3 == [s2 EXCEPT !.carts[u].items = [p \in Products |-> Absent]]
    IN  IF orderFails THEN [store |-> store, ok |-> FALSE]
        ELSE IF failAt = 2 THEN [store |-> s1, ok |-> FALSE]
        ELSE IF failAt = 3 THEN [store |-> s2, ok |-> FALSE]
        ELSE [store |-> s3, ok |-> TRUE]

\* prisma.$transaction: the writes of the body persist only if it returns
Transaction(store, u, c, failAt) ==
    LET r == TxBody(store, u, c, failAt)
    IN  IF r.ok THEN r ELSE [store |-> store, ok |-> FALSE]

\* POST /api/orders up to the start of the transaction
CheckoutBegin(u, code, shippingOk, saveBillingAddress, limit) ==
    LET cart == carts[u]
        outOfStockItems == OutOfStockItems(cart)
        copyAddress == saveBillingAddress /\ shippingOk
        subtotal == Subtotal(cart)
        coupon == IF code = NULL THEN NoCoupon ELSE FindCoupon(code, subtotal)
    IN
    /\ pc[u] = "idle"
    /\ Len(orders) + Cardinality({x \in Users : pc[x] = "tx"}) < limit
    /\ IF ~cart.exists \/ Lines(cart) = {}
       THEN /\ resp' = Response("orders.POST", u, 400)
            /\ UNCHANGED <<addresses, pc, ck>>
       ELSE IF outOfStockItems # {}
       THEN /\ resp' = [Response("orders.POST", u, 400)
                           EXCEPT !.outOfStock = outOfStockItems]
            /\ UNCHANGED <<addresses, pc, ck>>
       ELSE /\ copyAddress => addresses[u] < MaxAddresses
            /\ addresses' = IF copyAddress
                            THEN [addresses EXCEPT ![u] = @ + 1]
                            ELSE addresses
            /\ IF coupon # NoCoupon /\ coupon.hasMinPurchase
                                /\ coupon.minPurchase # 0
                                /\ subtotal < coupon.minPurchase
               THEN /\ resp' = Response("orders.POST", u, 400)
                    /\ UNCHANGED <<pc, ck>>
               ELSE /\ pc' = [pc EXCEPT ![u] = "tx"]
                    /\ ck' = [ck EXCEPT ![u] =
                               [items |-> cart.items, subtotal |-> subtotal,
                                discount |-> IF coupon = NoCoupon THEN 0
                                             ELSE DiscountAmount(coupon, subtotal),
                                couponCode |-> code, shippingOk |-> shippingOk]]
                    /\ UNCHANGED resp
    /\ UNCHANGED <<carts, product, priceEdits, inventoryLogs, orders, parent,
                   accounts,
                   wishlists>>

\* the transaction and the response that follows it
CheckoutTx(u, failAt) ==
    LET store == [orders |-> orders, inventoryLogs |-> inventoryLogs,
                  carts |-> carts]
        r == Transaction(store, u, ck[u], failAt)
    IN
    /\ pc[u] = "tx"
    /\ orders' = r.store.orders
    /\ inventoryLogs' = r.store.inventoryLogs
    /\ carts' = r.store.carts
    /\ resp' = Response("orders.POST", u, IF r.ok THEN 200 ELSE 500)
    /\ pc' = [pc EXCEPT ![u] = "idle"]
    /\ ck' = [ck EXCEPT ![u] = NoCheckout]
    /\ UNCHANGED <<product, priceEdits, addresses, parent, accounts,
                   wishlists>>

CheckoutUnauthorized ==
    /\ resp' = Response("orders.POST", NoSession, 401)
    /\ UNCHANGED <<carts, product, priceEdits, inventoryLogs, orders, addresses,
                   pc, ck, parent, accounts,
                   wishlists>>

\* ------------------------------------------------------------------------
\* Admin/manager gate and the category tree
\* ------------------------------------------------------------------------
Roles == {"USER", "STAFF", "MANAGER", "ADMIN"}
Missing == "missing"      \* no Category row with this id

NoToken == [kind |-> "none", userId |-> NULL, role |-> NULL]
BadToken == [kind |-> "bad", userId |-> NULL, role |-> NULL]
ValidToken(r) == [kind |-> "valid", userId |-> "staff1", role |-> r]
AccessTokens == {NoToken, BadToken} \cup {ValidToken(r) : r \in Roles}

\* jwt.verify(token, JWT_SECRET), null when it throws
VerifyAccessToken(token) ==
    IF token.kind = "valid"
    THEN [userId |-> token.userId, role |-> token.role]
    ELSE [invalid |-> TRUE]

\* middleware/auth.ts: the value the gate returns
RequireAdminOrManager(token) ==
    IF token.kind = "none" THEN [status |-> 401]
    ELSE LET decoded == VerifyAccessToken(token) IN
         IF "role" \notin DOMAIN decoded THEN [status |-> 401]
         ELSE IF decoded.role # "ADMIN" /\ decoded.role # "MANAGER"
              THEN [status |-> 403]
         ELSE [status |-> 200]       \* NextResponse.next()

\* variant: the value the gate returns for an admitted caller counts as well
IsAdminUserOrNext(response) ==
    \/ "userId" \in DOMAIN response /\ "role" \in DOMAIN response
    \/ response.status = 200

\* middleware/admin.ts: "userId" in response && "role" in response
IsAdminUser(response) ==
    "userId" \in DOMAIN response /\ "role" \in DOMAIN response

\* ------------------------------------------------------------------------
\* The gates of the account routes: withAuth and requireAdmin
\* ------------------------------------------------------------------------
Accounts == {"staff1", "staff2"}

\* the payload generateTokens signs at login
TokenOf(a, r) == [kind |-> "valid", userId |-> a, role |-> r]

\* const ROLES = ["USER", "STAFF", "MANAGER", "ADMIN"]
ROLES == <<"USER", "STAFF", "MANAGER", "ADMIN">>

\* ROLES.indexOf(role)
IndexOf(role) == CHOOSE i \in 1..Len(ROLES) : ROLES[i] = role

\* middleware/auth.ts
HasRequiredRole(userRole, requiredRole) ==
    IndexOf(userRole) >= IndexOf(requiredRole)

roleHierarchy == [USER |-> 1, STAFF |-> 2, MANAGER |-> 3, ADMIN |-> 4]

\* lib/auth/middleware.ts
HasRole(userRole, requiredRole) ==
    roleHierarchy[userRole] >= roleHierarchy[requiredRole]

NoAuthUser == [userId |-> NULL, email |-> NULL, role |-> NULL]

\* the value before any gated request
NotServed ==
    [gate |-> "none", token |-> NoToken, requiredRoles |-> {}, status |-> 0,
     user |-> NoAuthUser]

\* withAuth(handler, requiredRoles): the status answered and the AuthUser the
\* handler is called with.  Every user id a token names has a User row: rows
\* are deactivated, never deleted.
WithAuth(token, requiredRoles) ==
    IF token.kind = "none" THEN [status |-> 401, user |-> NoAuthUser]
    ELSE LET decoded == VerifyAccessToken(token) IN
         IF "userId" \notin DOMAIN decoded THEN [status |-> 401, user |-> NoAuthUser]
         ELSE LET user == userRows[decoded.userId] IN
              IF ~user.isActive THEN [status |-> 401, user |-> NoAuthUser]
              ELSE IF requiredRoles # {} /\ user.role \notin requiredRoles
                   THEN [status |-> 403, user |-> NoAuthUser]
              ELSE [status |-> 200,
                    user |-> [userId |-> decoded.userId,
                              email |-> decoded.userId, role |-> user.role]]

\* middleware/admin.ts: the token's payload, or a response
RequireAdmin(token) ==
    IF token.kind = "none" THEN [status |-> 401]
    ELSE LET user == VerifyAccessToken(token) IN
         IF "role" \notin DOMAIN user THEN [status |-> 401]
         ELSE IF user.role # "ADMIN" THEN [status |-> 403]
         ELSE user

\* ------------------------------------------------------------------------
\* Account and catalogue requests behind the gates
\* ------------------------------------------------------------------------
ShopFrame ==
    UNCHANGED <<carts, priceEdits, inventoryLogs, orders, addresses, pc, ck, parent,
                wishlists, cookies, inflight>>

Served(gate, token, requiredRoles, status, user) ==
    [gate |-> gate, token |-> token, requiredRoles |-> requiredRoles,
     status |-> status, user |-> user]

AuthUserOf(payload) ==
    [userId |-> payload.userId, email |-> payload.userId, role |-> payload.role]

\* POST /api/auth/login: the token carries the role stored at login
Login(a, passwordOk) ==
    /\ IF passwordOk
       THEN /\ issued' = issued \cup {TokenOf(a, userRows[a].role)}
            /\ resp' = Response("auth.login", a, 200)
       ELSE /\ resp' = Response("auth.login", a, 401)
            /\ UNCHANGED issued
    /\ UNCHANGED <<userRows, served, product>>
    /\ ShopFrame

\* expiresIn: "15m": jwt.verify rejects the token from then on
Expire(token) ==
    /\ token \in issued
    /\ issued' = issued \ {token}
    /\ UNCHANGED <<userRows, served, product, resp>>
    /\ ShopFrame

\* a route wrapped in withAuth(handler, requiredRoles)
GatedCall(token, requiredRoles) ==
    LET r == WithAuth(token, requiredRoles) IN
    /\ served' = Served("withAuth", token, requiredRoles, r.status, r.user)
    /\ resp' = Response("withAuth", r.user.userId, r.status)
    /\ UNCHANGED <<userRows, issued, product>>
    /\ ShopFrame

\* DELETE /api/users/[id]
UserDelete(token, target) ==
    LET adminCheck == RequireAdmin(token) IN
    /\ IF "userId" \notin DOMAIN adminCheck
       THEN /\ served' = Served("requireAdmin", token, {}, adminCheck.status,
                                NoAuthUser)
            /\ resp' = Response("users.DELETE", NULL, adminCheck.status)
            /\ UNCHANGED userRows
       ELSE /\ userRows' = [userRows EXCEPT ![target].isActive = FALSE]
            /\ served' = Served("requireAdmin", token, {}, 200,
                                AuthUserOf(adminCheck))
            /\ resp' = Response("users.DELETE", adminCheck.userId, 200)
    /\ UNCHANGED <<issued, product>>
    /\ ShopFrame

AssignableRoles == {"USER", "ADMIN", "MANAGER", "STAFF", "DELIVERY"}

\* PATCH /api/users/[id]/role
UserRolePatch(token, target, role) ==
    LET adminResponse == RequireAdmin(token) IN
    /\ IF ~IsAdminUser(adminResponse)
       THEN /\ served' = Served("requireAdmin", token, {}, adminResponse.status,
                                NoAuthUser)
            /\ resp' = Response("users.role.PATCH", NULL, adminResponse.status)
            /\ UNCHANGED userRows
       ELSE /\ served' = Served("requireAdmin", token, {}, 200,
                                AuthUserOf(adminResponse))
            /\ IF role \notin AssignableRoles
               THEN /\ resp' = Response("users.role.PATCH", adminResponse.userId, 400)
                    /\ UNCHANGED userRows
               ELSE IF adminResponse.userId = target /\ role # "ADMIN"
               THEN /\ resp' = Response("users.role.PATCH", adminResponse.userId, 403)
                    /\ UNCHANGED userRows
               ELSE /\ userRows' = [userRows EXCEPT ![target].role = role]
                    /\ resp' = Response("users.role.PATCH", adminResponse.userId, 200)
    /\ UNCHANGED <<issued, product>>
    /\ ShopFrame

\* PATCH /api/users/[id] with body data (role and/or isActive): the caller is
\* the payload of the bearer token (requireAccessToken)
UserPatch(token, target, data) ==
    LET currentUser == VerifyAccessToken(token)
        refused(status) ==
            /\ resp' = Response("users.PATCH", NULL, status)
            /\ UNCHANGED userRows
    IN
    /\ IF token.kind = "none" THEN refused(401)
       ELSE IF "role" \notin DOMAIN currentUser THEN refused(401)
       ELSE IF currentUser.userId # target /\ currentUser.role # "ADMIN"
       THEN refused(403)
       ELSE IF "role" \in DOMAIN data /\ currentUser.role # "ADMIN" THEN refused(403)
       ELSE IF "isActive" \in DOMAIN data /\ currentUser.role # "ADMIN"
       THEN refused(403)
       ELSE IF "role" \in DOMAIN data /\ data.role \notin AssignableRoles
       THEN /\ resp' = Response("users.PATCH", currentUser.userId, 500)
            /\ UNCHANGED userRows
       ELSE /\ userRows' =
                  [userRows EXCEPT ![target] =
                     [role |-> IF "role" \in DOMAIN data THEN data.role ELSE @.role,
                      isActive |-> IF "isActive" \in DOMAIN data THEN data.isActive
                                   ELSE @.isActive]]
            /\ resp' = Response("users.PATCH", currentUser.userId, 200)
    /\ UNCHANGED <<issued, served, product>>
    /\ ShopFrame

\* PATCH /api/products/[id] with body data (price and/or stock)
ProductPatch(token, p, data) ==
    LET authResponse == RequireAdminOrManager(token)
        stockDifference ==
            IF "stock" \in DOMAIN data /\ data.stock # product[p].stock
            THEN data.stock - product[p].stock ELSE 0
    IN
    /\ IF ~IsAdminUser(authResponse)
       THEN /\ served' = Served("requireAdminOrManager", token, {},
                                authResponse.status, NoAuthUser)
            /\ resp' = Response("products.PATCH", NULL, authResponse.status)
            /\ UNCHANGED <<product, inventoryLogs>>
       ELSE /\ served' = Served("requireAdminOrManager", token, {}, 200,
                                AuthUserOf(authResponse))
            /\ resp' = Response("products.PATCH", authResponse.userId, 200)
            /\ product' = [product EXCEPT ![p] =
                   [price |-> IF "price" \in DOMAIN data THEN data.price ELSE @.price,
                    stock |-> IF "stock" \in DOMAIN data THEN data.stock ELSE @.stock,
                    isActive |-> @.isActive]]
            /\ inventoryLogs' =
                   IF stockDifference = 0 THEN inventoryLogs
                   ELSE [inventoryLogs EXCEPT ![p] =
                           Append(@, [type |-> IF stockDifference > 0 THEN "STOCK_IN"
                                               ELSE "STOCK_OUT",
                                      quantity |-> IF stockDifference > 0
                                                   THEN stockDifference
                                                   ELSE 0 - stockDifference])]
    /\ UNCHANGED <<carts, priceEdits, orders, addresses, pc, ck, parent, userRows,
                   issued, wishlists, cookies, inflight>>

\* DELETE /api/products/[id]
ProductDelete(token, p) ==
    LET authResponse == RequireAdminOrManager(token) IN
    /\ IF ~IsAdminUser(authResponse)
       THEN /\ served' = Served("requireAdminOrManager", token, {},
                                authResponse.status, NoAuthUser)
            /\ resp' = Response("products.DELETE", NULL, authResponse.status)
            /\ UNCHANGED product
       ELSE /\ served' = Served("requireAdminOrManager", token, {}, 200,
                                AuthUserOf(authResponse))
            /\ resp' = Response("products.DELETE", authResponse.userId, 200)
            /\ product' = [product EXCEPT ![p].isActive = FALSE]
    /\ UNCHANGED <<userRows, issued>>
    /\ ShopFrame

\* ------------------------------------------------------------------------
\* Order detail and the two status-update routes
\* ------------------------------------------------------------------------
Processing == "PROCESSING"

\* enum OrderStatus
OrderStatus == {"PENDING", Processing, "SHIPPED", "DELIVERED", "CANCELLED"}

\* new Date()
Now == "set"

OrderIds == 1..Len(orders)

OrderFrame ==
    UNCHANGED <<carts, product, priceEdits, inventoryLogs, addresses, pc, ck,
                parent, accounts,
                   wishlists>>

\* GET /api/orders/[id] by the session user u whose session carries role
OrderGet(u, role, id) ==
    /\ IF u = NoSession THEN resp' = Response("orders.id.GET", NoSession, 401)
       ELSE IF id \notin OrderIds THEN resp' = Response("orders.id.GET", u, 404)
       ELSE IF orders[id].userId # u /\ role # "ADMIN"
            THEN resp' = Response("orders.id.GET", u, 403)
       ELSE resp' = Response("orders.id.GET", u, 200)
    /\ UNCHANGED orders
    /\ OrderFrame

\* PATCH /api/orders/[id] with body {status}
OrderPatchById(u, role, id, status) ==
    /\ IF u = NoSession
       THEN resp' = Response("orders.id.PATCH", NoSession, 401) /\ UNCHANGED orders
       ELSE IF role # "ADMIN"
       THEN resp' = Response("orders.id.PATCH", u, 403) /\ UNCHANGED orders
       ELSE IF status \notin OrderStatus
       THEN resp' = Response("orders.id.PATCH", u, 400) /\ UNCHANGED orders
       ELSE IF id \notin OrderIds
       THEN resp' = Response("orders.id.PATCH", u, 404) /\ UNCHANGED orders
       ELSE /\ orders' = [orders EXCEPT ![id] =
                   [@ EXCEPT !.status = status,
                             !.shippedAt = IF status = "SHIPPED" THEN Now ELSE @,
                             !.deliveredAt = IF status = "DELIVERED" THEN Now ELSE @]]
            /\ resp' = Response("orders.id.PATCH", u, 200)
    /\ OrderFrame

\* PATCH /api/orders with body {orderId, status}; the role is read from the
\* User row; order.update throws for an id without a row
OrdersPatch(u, orderId, status) ==
    /\ IF u = NoSession
       THEN resp' = Response("orders.PATCH", NoSession, 401) /\ UNCHANGED orders
       ELSE IF userRows[u].role # "ADMIN" /\ userRows[u].role # "STAFF"
       THEN resp' = Response("orders.PATCH", u, 403) /\ UNCHANGED orders
       ELSE IF status \notin OrderStatus
       THEN resp' = Response("orders.PATCH", u, 400) /\ UNCHANGED orders
       ELSE IF orderId \notin OrderIds
       THEN resp' = Response("orders.PATCH", u, 500) /\ UNCHANGED orders
       ELSE /\ orders' = [orders EXCEPT ![orderId] =
                   [@ EXCEPT !.status = status,
                             !.shippedAt = IF status = "SHIPPED" THEN Now ELSE @,
                             !.deliveredAt = IF status = "DELIVERED" THEN Now ELSE @,
                             !.cancelledAt = IF status = "CANCELLED" THEN Now ELSE @]]
            /\ resp' = Response("orders.PATCH", u, 200)
    /\ OrderFrame

\* ------------------------------------------------------------------------
\* The wishlist routes
\* ------------------------------------------------------------------------
\* lists: the users with a Wishlist row; defaults: those whose row has
\* isDefault = true (the column's default is false); items: WishlistItem rows
NoWishlists == [lists |-> {}, defaults |-> {}, items |-> {}]

\* WishlistItem.rating: null or a number
NoRating == [isNull |-> TRUE, value |-> 0]
Rated(n) == [isNull |-> FALSE, value |-> n]

\* the WishlistItem rows of u's wishlist, and their product ids
ItemsOf(w, u) == {i \in w.items : i.owner = u}
ProductsIn(w, u) == {i.productId : i \in ItemsOf(w, u)}

\* a fresh primary key
NewId(rows) ==
    CHOOSE n \in 1..(Cardinality(rows) + 1) :
        /\ \A i \in rows : i.id # n
        /\ \A m \in 1..(n - 1) : \E i \in rows : i.id = m

NewItem(rows, u, p) ==
    [id |-> NewId(rows), owner |-> u, productId |-> p,
     rating |-> NoRating, notes |-> NULL]

\* items: { createMany: { data: newProductIds.map(...) } }
RECURSIVE CreateMany(_, _, _)
CreateMany(rows, u, ps) ==
    IF ps = {} THEN rows
    ELSE LET p == CHOOSE x \in ps : TRUE
         IN  CreateMany(rows \cup {NewItem(rows, u, p)}, u, ps \ {p})

ActiveProducts == {p \in Products : product[p].isActive}

WishlistFrame ==
    UNCHANGED <<carts, product, priceEdits, inventoryLogs, orders, addresses, pc,
                ck, parent, accounts>>

\* GET /api/wishlist; validQuery: page, pageSize and sortBy pass the schema
WishlistGet(u, validQuery) ==
    /\ IF u = NoSession
       THEN resp' = Response("wishlist.GET", NoSession, 401) /\ UNCHANGED wishlists
       ELSE IF ~validQuery
       THEN resp' = Response("wishlist.GET", u, 400) /\ UNCHANGED wishlists
       ELSE /\ wishlists' = [wishlists EXCEPT !.lists = @ \cup {u}]
            /\ resp' = Response("wishlist.GET", u, 200)
    /\ WishlistFrame

\* POST /api/wishlist with body {productId}
WishlistPost(u, p) ==
    /\ IF u = NoSession
       THEN resp' = Response("wishlist.POST", NoSession, 401) /\ UNCHANGED wishlists
       ELSE IF p = NULL
       THEN resp' = Response("wishlist.POST", u, 400) /\ UNCHANGED wishlists
       ELSE IF p \notin ActiveProducts
       THEN resp' = Response("wishlist.POST", u, 404) /\ UNCHANGED wishlists
       ELSE IF u \notin wishlists.lists
       THEN resp' = Response("wishlist.POST", u, 404) /\ UNCHANGED wishlists
       ELSE IF p \in ProductsIn(wishlists, u)
       THEN resp' = Response("wishlist.POST", u, 200) /\ UNCHANGED wishlists
       ELSE /\ wishlists' = [wishlists EXCEPT
                                !.items = @ \cup {NewItem(@, u, p)}]
            /\ resp' = Response("wishlist.POST", u, 200)
    /\ WishlistFrame

\* z.number().int().min(1).max(5).nullable()
ValidRating(rating) == rating.isNull \/ (rating.value >= 1 /\ rating.value <= 5)

\* variant: the row is looked up by its id alone
FindItemById(w, u, itemId) == {i \in w.items : i.id = itemId}

\* where: { id: itemId, wishlist: { userId: session.user.id } }
FindItem(w, u, itemId) == {i \in w.items : i.id = itemId /\ i.owner = u}

\* PATCH /api/wishlist with body {itemId, rating, notes}; notes = NULL
\* stands for a body without notes
WishlistPatch(u, itemId, rating, notes) ==
    /\ IF u = NoSession
       THEN resp' = Response("wishlist.PATCH", NoSession, 401) /\ UNCHANGED wishlists
       ELSE IF itemId = 0 \/ ~ValidRating(rating)
       THEN resp' = Response("wishlist.PATCH", u, 400) /\ UNCHANGED wishlists
       ELSE IF FindItem(wishlists, u, itemId) = {}
       THEN resp' = Response("wishlist.PATCH", u, 400) /\ UNCHANGED wishlists
       ELSE /\ wishlists' = [wishlists EXCEPT !.items =
                   {IF i \in FindItem(wishlists, u, itemId)
                    THEN [i EXCEPT !.rating = rating,
                                   !.notes = IF notes # NULL THEN notes ELSE @]
                    ELSE i : i \in @}]
            /\ resp' = Response("wishlist.PATCH", u, 200)
    /\ WishlistFrame

\* variant: every valid id is created, present in the wishlist or not
NewProductIdsUnfiltered(existingProductIds, existingWishlistItemIds) ==
    existingProductIds

\* existingProductIds.filter((id) => !existingWishlistItemIds.includes(id))
NewProductIds(existingProductIds, existingWishlistItemIds) ==
    existingProductIds \ existingWishlistItemIds

\* the report of a bulk add
BulkResponse(u, added, alreadyInWishlist, invalidProducts) ==
    [op |-> "wishlist.bulk", user |-> u, status |-> 200, outOfStock |-> {},
     added |-> added, alreadyInWishlist |-> alreadyInWishlist,
     invalidProducts |-> invalidProducts]

\* handleAddMultipleItems with body {productIds}
AddMultipleItems(u, productIds) ==
    LET existingProductIds == productIds \cap ActiveProducts
        invalidProductIds == productIds \ existingProductIds
        existingWishlistItems == ItemsOf(wishlists, u)
        newProductIds ==
            NewProductIds(existingProductIds, ProductsIn(wishlists, u))
    IN
    /\ IF u = NoSession
       THEN resp' = Response("wishlist.bulk", NoSession, 401) /\ UNCHANGED wishlists
       ELSE IF productIds = {}
       THEN resp' = Response("wishlist.bulk", u, 400) /\ UNCHANGED wishlists
       ELSE IF existingProductIds = {}
       THEN resp' = Response("wishlist.bulk", u, 404) /\ UNCHANGED wishlists
       ELSE /\ wishlists' = [lists |-> wishlists.lists \cup {u},
                             defaults |-> IF u \in wishlists.lists
                                          THEN wishlists.defaults
                                          ELSE wishlists.defaults \cup {u},
                             items |-> CreateMany(wishlists.items, u, newProductIds)]
            /\ resp' = BulkResponse(u, Cardinality(newProductIds),
                   Cardinality({i \in existingWishlistItems :
                                   i.productId \in existingProductIds}),
                   invalidProductIds)
    /\ WishlistFrame

\* DELETE /api/wishlist with body {productId}
WishlistDelete(u, p) ==
    /\ IF u = NoSession
       THEN resp' = Response("wishlist.DELETE", NoSession, 401) /\ UNCHANGED wishlists
       ELSE IF p = NULL
       THEN resp' = Response("wishlist.DELETE", u, 400) /\ UNCHANGED wishlists
       ELSE IF u \notin wishlists.defaults
       THEN resp' = Response("wishlist.DELETE", u, 404) /\ UNCHANGED wishlists
       ELSE IF p \notin ProductsIn(wishlists, u)
       THEN resp' = Response("wishlist.DELETE", u, 404) /\ UNCHANGED wishlists
       ELSE LET wishlistItem ==
                    CHOOSE i \in ItemsOf(wishlists, u) : i.productId = p
            IN /\ wishlists' = [wishlists EXCEPT !.items = @ \ {wishlistItem}]
               /\ resp' = Response("wishlist.DELETE", u, 200)
    /\ WishlistFrame

\* ------------------------------------------------------------------------
\* Sessions: the browser's cookies, logout and refresh
\* ------------------------------------------------------------------------
NoCookies == [accessToken |-> NoToken, refreshToken |-> NoToken]

SessionFrame ==
    UNCHANGED <<carts, product, priceEdits, inventoryLogs, orders, addresses, pc,
                ck, parent, wishlists, inflight>>

\* setClientAuthCookies(accessToken, refreshToken) with the tokens of a
\* login or refresh response: setAuthCookies sets nothing on the server
SetClientAuthCookies(token) ==
    /\ token \in issued
    /\ cookies' = [accessToken |-> token, refreshToken |-> token]
    /\ UNCHANGED <<userRows, issued, served, resp>>
    /\ SessionFrame

\* the Set-Cookie headers of the logout response: the strings that
\* clearAuthCookies returns are dropped
ClearAuthCookies(jar) == jar

\* POST /api/auth/logout
Logout ==
    /\ resp' = Response("auth.logout", NULL, 200)
    /\ cookies' = ClearAuthCookies(cookies)
    /\ UNCHANGED <<userRows, issued, served>>
    /\ SessionFrame

\* the accessToken cookie as jwt.verify sees it: expired once it is no
\* longer among the unexpired tokens
CookieToken ==
    IF cookies.accessToken.kind = "valid" /\ cookies.accessToken \notin issued
    THEN BadToken ELSE cookies.accessToken

\* POST /api/auth/refresh with the browser's refreshToken cookie (valid for
\* seven days)
Refresh ==
    LET refreshToken == cookies.refreshToken IN
    /\ IF refreshToken.kind = "none"
       THEN resp' = Response("auth.refresh", NULL, 401) /\ UNCHANGED issued
       ELSE IF refreshToken.kind # "valid"
       THEN resp' = Response("auth.refresh", NULL, 401) /\ UNCHANGED issued
       ELSE /\ issued' = issued \cup
                   {TokenOf(refreshToken.userId, userRows[refreshToken.userId].role)}
            /\ resp' = Response("auth.refresh", refreshToken.userId, 200)
    /\ UNCHANGED <<userRows, served, cookies>>
    /\ SessionFrame

\* the while loop of PATCH: walk the parent chain from the new parent;
\* seen detects a chain that never ends (the request then never returns)
RECURSIVE WalkParents(_, _, _)
WalkParents(currentParentId, categoryId, seen) ==
    IF currentParentId = NULL THEN "ok"
    ELSE IF currentParentId = categoryId THEN "circular"
    ELSE IF currentParentId \in seen THEN "diverges"
    ELSE WalkParents(IF parent[currentParentId] = Missing THEN NULL
                     ELSE parent[currentParentId],
                     categoryId, seen \cup {currentParentId})

\* PATCH /api/categories/[id] with body {parentId}
CategoryPatch(token, categoryId, parentId) ==
    LET authResponse == RequireAdminOrManager(token) IN
    /\ IF ~IsAdminUser(authResponse)
       THEN /\ resp' = Response("categories.PATCH", NULL, authResponse.status)
            /\ UNCHANGED parent
       ELSE IF parent[categoryId] = Missing
       THEN /\ resp' = Response("categories.PATCH", NULL, 404)
            /\ UNCHANGED parent
       ELSE IF parentId = categoryId
       THEN /\ resp' = Response("categories.PATCH", NULL, 400)
            /\ UNCHANGED parent
       ELSE LET walk == WalkParents(parentId, categoryId, {}) IN
            /\ walk # "diverges"
            /\ IF walk = "circular"
               THEN /\ resp' = Response("categories.PATCH", NULL, 400)
                    /\ UNCHANGED parent
               ELSE IF parentId # NULL /\ parent[parentId] = Missing
               THEN /\ resp' = Response("categories.PATCH", NULL, 500)
                    /\ UNCHANGED parent
               ELSE /\ resp' = Response("categories.PATCH", NULL, 200)
                    /\ parent' = [parent EXCEPT ![categoryId] = parentId]
    /\ UNCHANGED <<carts, product, priceEdits, inventoryLogs, orders, addresses,
                   pc, ck, accounts,
                   wishlists>>

\* PATCH /api/categories/[id] store call by store call: the gate and
\* findUnique of the category, one findUnique per turn of the while loop,
\* and category.update
Reparenting(token, categoryId, parentId) ==
    [op |-> "categories.PATCH", token |-> token, categoryId |-> categoryId,
     parentId |-> parentId, stage |-> "start", currentParentId |-> NULL]

CategoryAnswer(s, status) ==
    /\ resp' = Response("categories.PATCH", NULL, status)
    /\ inflight' = [inflight EXCEPT !.reqs[s].stage = "done"]
    /\ UNCHANGED parent

CategoryStep(s) ==
    LET r == inflight.reqs[s]
        authResponse == RequireAdminOrManager(r.token)
        next == IF parent[r.currentParentId] = Missing THEN NULL
                ELSE parent[r.currentParentId]
    IN
    /\ r.op = "categories.PATCH"
    /\ r.stage # "done"
    /\ IF r.stage = "start"
       THEN IF ~IsAdminUser(authResponse) THEN CategoryAnswer(s, authResponse.status)
            ELSE IF parent[r.categoryId] = Missing THEN CategoryAnswer(s, 404)
            ELSE IF r.parentId = r.categoryId THEN CategoryAnswer(s, 400)
            ELSE /\ inflight' =
                       [inflight EXCEPT
                          !.reqs[s].stage = IF r.parentId = NULL THEN "update" ELSE "walk",
                          !.reqs[s].currentParentId = r.parentId]
                 /\ UNCHANGED <<resp, parent>>
       ELSE IF r.stage = "walk"
       THEN IF next = r.categoryId THEN CategoryAnswer(s, 400)
            ELSE /\ inflight' =
                       [inflight EXCEPT
                          !.reqs[s].stage = IF next = NULL THEN "update" ELSE "walk",
                          !.reqs[s].currentParentId = next]
                 /\ UNCHANGED <<resp, parent>>
       ELSE IF r.parentId # NULL /\ parent[r.parentId] = Missing
            THEN CategoryAnswer(s, 500)
            ELSE /\ parent' = [parent EXCEPT ![r.categoryId] = r.parentId]
                 /\ resp' = Response("categories.PATCH", NULL, 200)
                 /\ inflight' = [inflight EXCEPT !.reqs[s].stage = "done"]
    /\ UNCHANGED <<carts, product, priceEdits, inventoryLogs, orders, addresses,
                   pc, ck, userRows, issued, served, cookies, wishlists>>

\* POST /api/categories with body {name, parentId}
CategoryCreate(token, categoryId, parentId) ==
    LET authResponse == RequireAdminOrManager(token) IN
    /\ parent[categoryId] = Missing
    /\ IF ~IsAdminUser(authResponse)
       THEN /\ resp' = Response("categories.POST", NULL, authResponse.status)
            /\ UNCHANGED parent
       ELSE IF parentId # NULL /\ parent[parentId] = Missing
       THEN /\ resp' = Response("categories.POST", NULL, 404)
            /\ UNCHANGED parent
       ELSE /\ resp' = Response("categories.POST", NULL, 201)
            /\ parent' = [parent EXCEPT ![categoryId] = parentId]
    /\ UNCHANGED <<carts, product, priceEdits, inventoryLogs, orders, addresses,
                   pc, ck, accounts,
                   wishlists>>

\* ------------------------------------------------------------------------
\* Initial state: a seeded catalogue, no carts, no orders
\* ------------------------------------------------------------------------
StockIn(n) == [type |-> "STOCK_IN", quantity |-> n]
StockOut(n) == [type |-> "STOCK_OUT", quantity |-> n]

\* the accounts as seeded: one active admin, one active customer, nobody
\* logged in
InitAccounts ==
    /\ userRows = [a \in Accounts |->
                      [role |-> IF a = "staff1" THEN "ADMIN" ELSE "USER",
                       isActive |-> TRUE]]
    /\ issued = {}
    /\ served = NotServed
    /\ cookies = NoCookies
    /\ inflight = NoRequests

InitStore ==
    /\ carts = [u \in Users |-> NoCart]
    /\ priceEdits = 0
    /\ orders = <<>>
    /\ addresses = [u \in Users |-> 0]
    /\ pc = [u \in Users |-> "idle"]
    /\ ck = [u \in Users |-> NoCheckout]
    /\ resp = Response("none", NoSession, 0)
    /\ wishlists = NoWishlists

InitShop ==
    /\ InitAccounts
    /\ InitStore

Catalogue(stock) ==
    [p \in Products |-> [price |-> IF p = "p1" THEN 100 ELSE 200,
                         stock |-> stock, isActive |-> TRUE]]

\* ------------------------------------------------------------------------
\* The cart ledger on its own
\* ------------------------------------------------------------------------
InitCart ==
    /\ InitShop
    /\ product = Catalogue(2)
    /\ inventoryLogs = [p \in Products |-> <<StockIn(2)>>]
    /\ parent = [c \in Categories |-> NULL]

Callers == Shopper \cup {NoSession}

CartAdd == CartAddBy(Callers, ProductIds \cup {NULL}, AddQuantities)
CartPut == CartPutBy(Callers, ProductIds \cup {NULL}, PutQuantities)
CartDelete == CartDeleteBy(Callers, ProductIds \cup {NULL})
CartClear == CartClearBy(Callers)
CartGet == CartGetBy(Callers)
Reprice == \E p \in Products, price \in Prices : PriceChange(p, price)

NextCart == CartAdd \/ CartPut \/ CartDelete \/ CartClear \/ CartGet \/ Reprice

SpecCart == InitCart /\ [][NextCart]_vars

\* ------------------------------------------------------------------------
\* Checkout by one shopper who sends one request at a time: every seed of
\* the inventory ledger, every failure point of the transaction
\* ------------------------------------------------------------------------
LogSeeds ==
    [p \in Products |->
        IF p = "p1" THEN { <<>>, <<StockIn(1)>>, <<StockOut(1), StockIn(2)>> }
        ELSE { <<>>, <<StockIn(1)>> }]

Init ==
    /\ InitShop
    /\ product = Catalogue(1)
    /\ inventoryLogs \in {f \in [Products -> UNION {LogSeeds[p] : p \in Products}] :
                             \A p \in Products : f[p] \in LogSeeds[p]}
    /\ parent = [c \in Categories |-> NULL]

Waiting(U) == \A u \in U : pc[u] = "idle"

ShopperAdd == Waiting(Shopper) /\ CartAddBy(Shopper, Products, {-1, 1})
ShopperCheckout ==
    \/ CheckoutUnauthorized
    \/ \E u \in Shopper, shippingOk \in BOOLEAN, saveBillingAddress \in BOOLEAN :
          CheckoutBegin(u, NULL, shippingOk, saveBillingAddress, MaxCheckouts)
ShopperCommit == \E u \in Shopper, failAt \in 0..3 : CheckoutTx(u, failAt)

Next == ShopperAdd \/ ShopperCheckout \/ ShopperCommit

Spec == Init /\ [][Next]_vars

\* ------------------------------------------------------------------------
\* Checkout by one shopper with every coupon code
\* ------------------------------------------------------------------------
InitCoupon ==
    /\ InitShop
    /\ product = Catalogue(1)
    /\ inventoryLogs = [p \in Products |-> <<StockIn(1)>>]
    /\ parent = [c \in Categories |-> NULL]

CouponAdd == Waiting(Shopper) /\ CartAddBy(Shopper, Products, {-1, 1})
CouponCheckout ==
    \E u \in Shopper, code \in CouponCodes :
        CheckoutBegin(u, code, TRUE, FALSE, MaxCheckouts)
CouponCommit == \E u \in Shopper : CheckoutTx(u, 0)

NextCoupon == CouponAdd \/ CouponCheckout \/ CouponCommit

SpecCoupon == InitCoupon /\ [][NextCoupon]_vars

\* ------------------------------------------------------------------------
\* Checkout of a cart whose products were repriced after they were added
\* ------------------------------------------------------------------------
PricedReprice == Waiting(Shopper) /\ Reprice
PricedCheckout ==
    \E u \in Shopper : CheckoutBegin(u, NULL, TRUE, FALSE, MaxCheckouts)

NextPriced == CouponAdd \/ PricedReprice \/ PricedCheckout \/ CouponCommit

SpecPriced == InitCoupon /\ [][NextPriced]_vars

\* ------------------------------------------------------------------------
\* Two shoppers checking out the same product at the same time
\* ------------------------------------------------------------------------
InitRace ==
    /\ InitShop
    /\ product = Catalogue(1)
    /\ inventoryLogs \in [Products -> {<<StockIn(1)>>, <<StockIn(2)>>}]
    /\ parent = [c \in Categories |-> NULL]

RaceAdd == CartAddBy(Users, Products, {1})
RaceCheckout ==
    \E u \in Users :
        CheckoutBegin(u, NULL, TRUE, FALSE, MaxOrders)
RaceCommit == \E u \in Users : CheckoutTx(u, 0)

NextRace == RaceAdd \/ RaceCheckout \/ RaceCommit

SpecRace == InitRace /\ [][NextRace]_vars

\* ------------------------------------------------------------------------
\* The category tree: any seeded forest, reparenting and creation requests
\* ------------------------------------------------------------------------
RECURSIVE ReachesUp(_, _, _, _)
ReachesUp(f, from, target, fuel) ==
    IF from = NULL \/ from = Missing \/ fuel = 0 THEN FALSE
    ELSE IF from = target THEN TRUE
    ELSE ReachesUp(f, f[from], target, fuel - 1)

\* c is its own ancestor in the parent map f
OwnAncestor(f, c) ==
    f[c] # Missing /\ ReachesUp(f, f[c], c, Cardinality(Categories))

Forest(f) ==
    /\ \A c \in Categories : ~OwnAncestor(f, c)
    /\ \A c \in Categories :
          f[c] \in Categories => f[f[c]] # Missing

InitCategories ==
    /\ InitShop
    /\ product = Catalogue(1)
    /\ inventoryLogs = [p \in Products |-> <<StockIn(1)>>]
    /\ parent \in {f \in [Categories -> Categories \cup {NULL, Missing}] : Forest(f)}

Reparent ==
    \E token \in AccessTokens, c \in Categories, np \in Categories \cup {NULL} :
        CategoryPatch(token, c, np)

Create ==
    \E token \in AccessTokens, c \in Categories, np \in Categories \cup {NULL} :
        CategoryCreate(token, c, np)

NextCategories == Reparent \/ Create

SpecCategories == InitCategories /\ [][NextCategories]_vars

\* ------------------------------------------------------------------------
\* The gates: logins, token expiry, account administration, a route behind
\* withAuth, and the product writes
\* ------------------------------------------------------------------------
InitGate ==
    /\ InitShop
    /\ product = Catalogue(1)
    /\ inventoryLogs = [p \in Products |-> <<StockIn(1)>>]
    /\ parent = [c \in Categories |-> NULL]

\* the tokens a request may carry: none, a forged or expired one, or one
\* that login has signed
Presented == {NoToken, BadToken} \cup issued

\* the role lists a route may be wrapped with
RequiredLists == {{}, {"MANAGER"}, {"ADMIN"}, {"MANAGER", "ADMIN"}}

ProductData == {[price |-> 200], [stock |-> 2], [price |-> 100, stock |-> 0]}

SignIn ==
    /\ Cardinality(issued) < MaxTokens
    /\ \E a \in Accounts, passwordOk \in BOOLEAN : Login(a, passwordOk)
TokenExpiry == \E token \in issued : Expire(token)
CallGated ==
    \E token \in Presented, requiredRoles \in RequiredLists :
        GatedCall(token, requiredRoles)
Deactivate == \E token \in Presented, target \in Accounts : UserDelete(token, target)
AssignRole ==
    \E token \in Presented, target \in Accounts,
       role \in {"USER", "MANAGER", "ADMIN", "OWNER"} :
        UserRolePatch(token, target, role)
UpdateProduct ==
    \E token \in Presented, p \in Products, data \in ProductData :
        ProductPatch(token, p, data)
DeleteProduct == \E token \in Presented, p \in Products : ProductDelete(token, p)

NextGate ==
    \/ SignIn \/ TokenExpiry \/ CallGated \/ Deactivate \/ AssignRole
    \/ UpdateProduct \/ DeleteProduct

SpecGate == InitGate /\ [][NextGate]_vars

\* ------------------------------------------------------------------------
\* Account administration: logins, token expiry and the three routes that
\* write a user's role or isActive
\* ------------------------------------------------------------------------
UserData ==
    {<<>>} \cup {[role |-> r] : r \in {"USER", "ADMIN", "OWNER"}}
           \cup {[isActive |-> b] : b \in BOOLEAN}

EditUser ==
    \E token \in Presented, target \in Accounts, data \in UserData :
        UserPatch(token, target, data)

NextUsers == SignIn \/ TokenExpiry \/ Deactivate \/ AssignRole \/ EditUser

SpecUsers == InitGate /\ [][NextUsers]_vars

\* ------------------------------------------------------------------------
\* Order lifecycle: one order of each customer has been placed; signed-in
\* users of every role read orders and send status updates
\* ------------------------------------------------------------------------
PlacedCheckout ==
    [NoCheckout EXCEPT !.items["p1"] = [present |-> TRUE, quantity |-> 1,
                                        priceAtTime |-> 100],
                       !.subtotal = 100]

SessionRoles == {"USER", "STAFF", "ADMIN"}

InitLifecycle ==
    /\ carts = [u \in Users |-> NoCart]
    /\ priceEdits = 0
    /\ addresses = [u \in Users |-> 0]
    /\ pc = [u \in Users |-> "idle"]
    /\ ck = [u \in Users |-> NoCheckout]
    /\ resp = Response("none", NoSession, 0)
    /\ wishlists = NoWishlists
    /\ product = Catalogue(1)
    /\ inventoryLogs = [p \in Products |-> <<StockIn(1)>>]
    /\ parent = [c \in Categories |-> NULL]
    /\ \E owner \in Users : orders = <<NewOrder(owner, PlacedCheckout)>>
    /\ userRows \in [Users -> {[role |-> r, isActive |-> TRUE] : r \in SessionRoles}]
    /\ issued = {}
    /\ served = NotServed
    /\ cookies = NoCookies
    /\ inflight = NoRequests

\* the session of a signed-in user carries the role of its User row
SignedIn == Users \cup {NoSession}
RoleIn(u) == IF u = NoSession THEN NULL ELSE userRows[u].role

\* the ids a request may name: the order placed and one without a row
RequestedIds == 1..(Len(orders) + 1)
RequestedStatus == OrderStatus \cup {"RETURNED"}

ViewOrder == \E u \in SignedIn, id \in RequestedIds : OrderGet(u, RoleIn(u), id)
UpdateById ==
    \E u \in SignedIn, id \in RequestedIds, status \in RequestedStatus :
        OrderPatchById(u, RoleIn(u), id, status)
UpdateStatus ==
    \E u \in SignedIn, id \in RequestedIds, status \in RequestedStatus :
        OrdersPatch(u, id, status)

NextLifecycle == ViewOrder \/ UpdateById \/ UpdateStatus

SpecLifecycle == InitLifecycle /\ [][NextLifecycle]_vars

\* ------------------------------------------------------------------------
\* The cart requests against a shelf with one unit of each product, so that
\* a request can ask for more than the stock
\* ------------------------------------------------------------------------
InitShelf ==
    /\ InitShop
    /\ product = Catalogue(1)
    /\ inventoryLogs = [p \in Products |-> <<StockIn(1)>>]
    /\ parent = [c \in Categories |-> NULL]

SpecShelf == InitShelf /\ [][NextCart]_vars

\* ------------------------------------------------------------------------
\* Set-quantity and remove-item on carts filled by valid adds, while the
\* catalogue price changes
\* ------------------------------------------------------------------------
\* two units of p1 and one of p2 on the shelf
InitPut ==
    /\ InitShop
    /\ product = [Catalogue(2) EXCEPT !["p2"].stock = 1]
    /\ inventoryLogs = [p \in Products |->
                           <<StockIn(IF p = "p2" THEN 1 ELSE 2)>>]
    /\ parent = [c \in Categories |-> NULL]

FillCart == CartAddBy(Shopper, Products, {1, 2})
PutLine == CartPutBy(Shopper, ProductIds, PutQuantities)
DeleteLine == CartDeleteBy(Shopper, ProductIds)

NextPut == FillCart \/ PutLine \/ DeleteLine \/ Reprice

SpecPut == InitPut /\ [][NextPut]_vars

\* ------------------------------------------------------------------------
\* The wishlist: one user fills and empties a wishlist; that user and a
\* second one view and send rating requests
\* ------------------------------------------------------------------------
InitWishlist ==
    /\ InitShop
    /\ product = Catalogue(1)
    /\ inventoryLogs = [p \in Products |-> <<StockIn(1)>>]
    /\ parent = [c \in Categories |-> NULL]

\* ids a rating request may name: none, the rows that can exist, and one
\* more
ItemIds == 0..(Cardinality(Products) + 1)
RatingInputs == {NoRating, Rated(0), Rated(4), Rated(6)}
NotesInputs == {NULL, "gift"}

View == \E u \in SignedIn, validQuery \in BOOLEAN : WishlistGet(u, validQuery)
AddOne == \E u \in Callers, p \in ProductIds \cup {NULL} : WishlistPost(u, p)
AddMany == \E u \in Callers, productIds \in SUBSET ProductIds :
              AddMultipleItems(u, productIds)
Rate ==
    \E u \in SignedIn, itemId \in ItemIds, rating \in RatingInputs,
       notes \in NotesInputs :
        WishlistPatch(u, itemId, rating, notes)
Remove == \E u \in Callers, p \in ProductIds \cup {NULL} : WishlistDelete(u, p)

NextWishlist == View \/ AddOne \/ AddMany \/ Rate \/ Remove

SpecWishlist == InitWishlist /\ [][NextWishlist]_vars

\* ------------------------------------------------------------------------
\* A browser session: sign in, keep the tokens as cookies, send catalogue
\* writes and refreshes with them, log out
\* ------------------------------------------------------------------------
KeepTokens == \E token \in issued : SetClientAuthCookies(token)
CookieWrite ==
    \E p \in Products, data \in ProductData : ProductPatch(CookieToken, p, data)
CookieRefresh == Cardinality(issued) <= MaxTokens /\ Refresh

NextSession ==
    \/ SignIn \/ TokenExpiry \/ KeepTokens \/ Logout \/ CookieWrite
    \/ CookieRefresh \/ AssignRole

SpecSession == InitGate /\ [][NextSession]_vars

\* ------------------------------------------------------------------------
\* Two cart requests of one shopper, sent together, against a cart that
\* exists
\* ------------------------------------------------------------------------
Line(q, price) == [present |-> TRUE, quantity |-> q, priceAtTime |-> price]

CartSeeds ==
    { EmptyCart,
      [EmptyCart EXCEPT !.items["p1"] = Line(1, 100), !.total = 100],
      [EmptyCart EXCEPT !.items["p1"] = Line(1, 100), !.items["p2"] = Line(1, 200),
                        !.total = 300] }

MutationsSent ==
    {Sent("POST", p, q) : p \in Products, q \in {1, 2}}
      \cup {Sent("PUT", p, q) : p \in Products, q \in {0, 1, 2}}
      \cup {Sent("DELETE", p, 0) : p \in Products}

InitMutations ==
    /\ priceEdits = 0
    /\ orders = <<>>
    /\ addresses = [u \in Users |-> 0]
    /\ pc = [u \in Users |-> "idle"]
    /\ ck = [u \in Users |-> NoCheckout]
    /\ resp = Response("none", NoSession, 0)
    /\ wishlists = NoWishlists
    /\ product = Catalogue(2)
    /\ inventoryLogs = [p \in Products |-> <<StockIn(2)>>]
    /\ parent = [c \in Categories |-> NULL]
    /\ \E seed \in CartSeeds :
          carts = [u \in Users |-> IF u \in Shopper THEN seed ELSE NoCart]
    /\ userRows = [a \in Accounts |->
                      [role |-> IF a = "staff1" THEN "ADMIN" ELSE "USER",
                       isActive |-> TRUE]]
    /\ issued = {}
    /\ served = NotServed
    /\ cookies = NoCookies
    /\ \E reqs \in [Slots -> MutationsSent] :
          inflight = [reqs |-> reqs, twins |-> {}]

ReadCart == \E u \in Shopper, s \in Slots : CartRead(u, s)
UpdateCart == \E u \in Shopper, s \in Slots : CartUpdate(u, s)
DeleteItem == \E u \in Shopper, s \in Slots : CartItemDelete(u, s)
UpdateTotal == \E u \in Shopper, s \in Slots : CartTotalUpdate(u, s)

NextMutations == ReadCart \/ UpdateCart \/ DeleteItem \/ UpdateTotal

SpecMutations == InitMutations /\ [][NextMutations]_vars

\* ------------------------------------------------------------------------
\* Two reparenting requests sent together, against any forest of categories
\* ------------------------------------------------------------------------
ReparentTokens == {ValidToken("ADMIN"), ValidToken("USER")}

ReparentingsSent ==
    {Reparenting(token, c, np) :
        token \in ReparentTokens, c \in Categories, np \in Categories \cup {NULL}}

InitReparent ==
    /\ InitStore
    /\ userRows = [a \in Accounts |->
                      [role |-> IF a = "staff1" THEN "ADMIN" ELSE "USER",
                       isActive |-> TRUE]]
    /\ issued = {}
    /\ served = NotServed
    /\ cookies = NoCookies
    /\ product = Catalogue(1)
    /\ inventoryLogs = [p \in Products |-> <<StockIn(1)>>]
    /\ parent \in {f \in [Categories -> Categories \cup {NULL}] : Forest(f)}
    /\ \E reqs \in [Slots -> ReparentingsSent] :
          inflight = [reqs |-> reqs, twins |-> {}]

ReparentStep == \E s \in Slots : CategoryStep(s)

NextReparent == ReparentStep

SpecReparent == InitReparent /\ [][NextReparent]_vars

\* ========================================================================
\* Properties
\* ========================================================================

\* the ledger balance of a product: STOCK_IN entries minus all others
LedgerBalance(logs) ==
    SumOver(DOMAIN logs,
            [i \in DOMAIN logs |->
                IF logs[i].type = "STOCK_IN" THEN logs[i].quantity
                ELSE 0 - logs[i].quantity])

\* the lines of u's cart that ask for more than the ledger holds
Exceeding(u) ==
    {p \in Products : /\ carts[u].items[p].present
                      /\ carts[u].items[p].quantity > LedgerBalance(inventoryLogs[p])}

\* the step in which u's transaction ends, and the one in which it commits
TxEnds(u) == pc[u] = "tx" /\ pc'[u] = "idle"
Commits(u) == TxEnds(u) /\ resp'.status = 200

\* ------------------------------------------------------------------------
\* C1: for every cart, after any sequence of add / set-quantity / remove /
\* clear requests, the stored total equals the sum over the cart's line
\* items of priceAtTime * quantity.
\* ------------------------------------------------------------------------
CartTotalIsSum ==
    \A u \in Users : carts[u].total = ItemsTotal(carts[u])

\* ------------------------------------------------------------------------
\* C2: checkout is all-or-nothing.  The step that ends a checkout
\* transaction either leaves orders, inventory, cart lines and cart total
\* untouched, or shows all four effects: the order exists, the ledger row of
\* every line is decremented, the cart has no lines and its total is zero.
\* ------------------------------------------------------------------------
AllOrNothing ==
    [][\A u \in Users : TxEnds(u) =>
          \/ UNCHANGED <<orders, inventoryLogs, carts>>
          \/ /\ Len(orders') = Len(orders) + 1
             /\ \A p \in Products :
                   ck[u].items[p].present /\ inventoryLogs[p] # <<>> =>
                      inventoryLogs'[p][1].quantity =
                         inventoryLogs[p][1].quantity - ck[u].items[p].quantity
             /\ Lines(carts'[u]) = {}
             /\ carts'[u].total = 0]_vars

\* ------------------------------------------------------------------------
\* C3: a checkout of a cart with at least one line above the available
\* stock is answered 400 with a list naming exactly those lines, and
\* changes neither orders, inventory, products, addresses nor the cart.
\* ------------------------------------------------------------------------
OutOfStockRejected ==
    [][\A u \in Users, shippingOk \in BOOLEAN, save \in BOOLEAN :
          (CheckoutBegin(u, NULL, shippingOk, save, MaxCheckouts)
             /\ Exceeding(u) # {}) =>
                /\ resp'.status = 400
                /\ resp'.outOfStock = Exceeding(u)
                /\ pc'[u] = "idle"
                /\ UNCHANGED <<orders, inventoryLogs, carts, product, addresses>>]_vars

OutOfStockSeen ==
    /\ resp.op = "orders.POST"
    /\ resp.status = 400
    /\ Cardinality(resp.outOfStock) = 2
    /\ resp.outOfStock = Exceeding(resp.user)

\* ------------------------------------------------------------------------
\* C4: after every successful checkout the caller's cart has no line items
\* and its stored total is 0.
\* ------------------------------------------------------------------------
CartEmptyAfterCheckout ==
    [][\A u \in Users : Commits(u) =>
          Lines(carts'[u]) = {} /\ carts'[u].total = 0]_vars

\* ------------------------------------------------------------------------
\* C5: a successful checkout lowers the available stock of every line's
\* product, computed from the inventory ledger, by the line's quantity.
\* ------------------------------------------------------------------------
StockDecremented ==
    [][\A u \in Users : Commits(u) =>
          \A p \in Products : ck[u].items[p].present =>
             LedgerBalance(inventoryLogs'[p]) =
                LedgerBalance(inventoryLogs[p]) - ck[u].items[p].quantity]_vars

\* ------------------------------------------------------------------------
\* C6: nothing re-checks stock once the availability check has passed: the
\* transaction of every checkout that passed it can create its order,
\* whatever other checkouts have committed in between, so two shoppers can
\* both order the last unit.
\* ------------------------------------------------------------------------
NoRecheck ==
    \A u \in Users :
        pc[u] = "tx" =>
            ENABLED (CheckoutTx(u, 0) /\ Len(orders') = Len(orders) + 1)

Oversold ==
    \E p \in Products :
        /\ Len(orders) = 2
        /\ orders[1].userId # orders[2].userId
        /\ \A i \in 1..2 : \E it \in orders[i].items :
                              it.productId = p /\ it.quantity = 1
        /\ LedgerBalance(inventoryLogs[p]) < 0

\* ------------------------------------------------------------------------
\* C7: every order has total = subtotal - discount + shippingFee + tax and
\* its payment has amount = total.
\* ------------------------------------------------------------------------
OrderTotals ==
    \A i \in 1..Len(orders) :
        /\ orders[i].total = orders[i].subtotal - orders[i].discount
                               + orders[i].shippingFee + orders[i].tax
        /\ orders[i].paymentAmount = orders[i].total

DiscountedOrder ==
    \E i \in 1..Len(orders) :
        orders[i].discount > 0 /\ orders[i].discount < orders[i].subtotal

\* ------------------------------------------------------------------------
\* C8: every order has tax = (subtotal - discount) * 10% and
\* shippingFee = 0; subtotal 200 with no coupon gives tax 20 and total 220.
\* ------------------------------------------------------------------------
TaxIsTenPercent ==
    \A i \in 1..Len(orders) :
        /\ 10 * orders[i].tax = orders[i].subtotal - orders[i].discount
        /\ orders[i].shippingFee = 0

\* ------------------------------------------------------------------------
\* C9: the discount of a checkout with coupon code on subtotal s is
\* s * v / 100 for a valid PERCENTAGE coupon, min(v, s) for a valid FIXED
\* coupon, and 0 for a code that is unknown, inactive, expired or whose
\* minimum purchase exceeds s; in every case 0 <= discount <= s.
\* ------------------------------------------------------------------------
ExpectedDiscount(code, s) ==
    CASE code = "PCT" -> (s * 50) \div 100
      [] code = "FIX" -> IF 150 <= s THEN 150 ELSE s
      [] code = "MIN" -> IF 200 > s THEN 0 ELSE 100
      [] OTHER -> 0

CouponDiscount ==
    \A u \in Users :
        pc[u] = "tx" /\ ck[u].couponCode # NULL =>
            /\ ck[u].discount = ExpectedDiscount(ck[u].couponCode, ck[u].subtotal)
            /\ 0 <= ck[u].discount
            /\ ck[u].discount <= ck[u].subtotal

\* ------------------------------------------------------------------------
\* C10: a reparenting request by an admin or manager whose new parent is
\* the category itself or one of its descendants is answered with a 400
\* error and changes no parentId; and no category is ever its own ancestor.
\* ------------------------------------------------------------------------
ReparentCycleRejected ==
    [][\A role \in {"ADMIN", "MANAGER"}, c \in Categories, np \in Categories :
          (/\ CategoryPatch(ValidToken(role), c, np)
           /\ parent[c] # Missing
           /\ parent[np] # Missing
           /\ (np = c \/ ReachesUp(parent, np, c, Cardinality(Categories) + 1))) =>
                resp'.status = 400 /\ parent' = parent]_vars

NoOwnAncestor == \A c \in Categories : ~OwnAncestor(parent, c)

\* ------------------------------------------------------------------------
\* C11: withAuth answers an authenticated, active caller with 403 exactly
\* when the caller's role rank (USER=1, STAFF=2, MANAGER=3, ADMIN=4) is
\* below the rank the endpoint requires; a caller of equal or higher rank
\* is admitted and the handler receives {userId, email, role}; and hasRole
\* and hasRequiredRole give the same answer for every pair of roles.
\* ------------------------------------------------------------------------
\* the rank an endpoint requires: the lowest rank among the roles it lists
RequiredRole(requiredRoles) ==
    CHOOSE r \in requiredRoles :
        \A q \in requiredRoles : roleHierarchy[r] <= roleHierarchy[q]

RankDecides ==
    [][\A token \in Presented, requiredRoles \in RequiredLists :
          (/\ GatedCall(token, requiredRoles)
           /\ token.kind = "valid"
           /\ userRows[token.userId].isActive
           /\ userRows[token.userId].role \in Roles
           /\ requiredRoles # {}) =>
             LET role == userRows[token.userId].role
                 required == RequiredRole(requiredRoles)
             IN /\ HasRole(role, required) = HasRequiredRole(role, required)
                /\ (served'.status = 403) = ~HasRole(role, required)
                /\ HasRole(role, required) =>
                      /\ served'.status = 200
                      /\ served'.user = [userId |-> token.userId,
                                         email |-> token.userId,
                                         role |-> role]]_vars

HelpersAgree ==
    \A a \in Roles, b \in Roles : HasRole(a, b) = HasRequiredRole(a, b)

\* ------------------------------------------------------------------------
\* C12: once a user is deactivated (isActive = false), every later request
\* that carries that user's unexpired access token is rejected by whichever
\* gate guards the route (withAuth, requireAdmin, requireAdminOrManager),
\* and nothing is written on that user's behalf.
\* ------------------------------------------------------------------------
\* a request to some gated route that carries the token
GatedRequest(token) ==
    \/ \E requiredRoles \in RequiredLists : GatedCall(token, requiredRoles)
    \/ \E target \in Accounts : UserDelete(token, target)
    \/ \E target \in Accounts, role \in AssignableRoles :
          UserRolePatch(token, target, role)
    \/ \E p \in Products, data \in ProductData : ProductPatch(token, p, data)
    \/ \E p \in Products : ProductDelete(token, p)

DeactivatedRejected ==
    [][\A token \in issued :
          ~userRows[token.userId].isActive /\ GatedRequest(token) =>
              /\ served'.status \in {401, 403}
              /\ UNCHANGED <<userRows, product, inventoryLogs>>]_vars

\* ------------------------------------------------------------------------
\* C13: a product write with a valid ADMIN or MANAGER token is let through
\* and applied to the store; one with no token or an invalid token gets
\* 401, one with role USER or STAFF gets 403, and in both cases the store
\* is unchanged.
\* ------------------------------------------------------------------------
\* the answer and the store's change the gate owes a product write
GateOutcome(token, applied) ==
    IF token.kind # "valid"
    THEN resp'.status = 401 /\ UNCHANGED <<product, inventoryLogs>>
    ELSE IF token.role \in {"USER", "STAFF"}
    THEN resp'.status = 403 /\ UNCHANGED <<product, inventoryLogs>>
    ELSE token.role \in {"ADMIN", "MANAGER"} => applied

WritesGated ==
    [][\A token \in Presented, p \in Products :
          /\ \A data \in ProductData :
                ProductPatch(token, p, data) =>
                   GateOutcome(token,
                      \A f \in DOMAIN data : product'[p][f] = data[f])
          /\ ProductDelete(token, p) =>
                GateOutcome(token, ~product'[p].isActive)]_vars

\* ------------------------------------------------------------------------
\* C14: an order's status only moves forward along PENDING, (PROCESSING),
\* SHIPPED, DELIVERED, or to CANCELLED from a status before DELIVERED:
\* through either status-update route no request moves an order backwards,
\* and a DELIVERED or CANCELLED order never changes status again.
\* ------------------------------------------------------------------------
Stage == [PENDING |-> 1, PROCESSING |-> 2, SHIPPED |-> 3, DELIVERED |-> 4]

MayMove(from, to) ==
    \/ from = to
    \/ from \in DOMAIN Stage /\ to \in DOMAIN Stage /\ Stage[from] < Stage[to]
    \/ to = "CANCELLED" /\ from \in {"PENDING", "PROCESSING", "SHIPPED"}

StatusMovesForward ==
    [][\A id \in OrderIds : MayMove(orders[id].status, orders'[id].status)]_vars

\* ------------------------------------------------------------------------
\* C15: an order's details are returned only to the user who owns it; its
\* status is changed only by an ADMIN (PATCH /orders/{id}) or by an ADMIN
\* or STAFF caller (PATCH /orders); every other signed-in caller gets 403
\* and the order is unchanged, and an unknown order id gets 404.
\* ------------------------------------------------------------------------
Refused(status) == resp'.status = status /\ UNCHANGED orders

OrderAccess ==
    [][\A u \in Users, id \in RequestedIds :
          /\ OrderGet(u, RoleIn(u), id) =>
                IF id \notin OrderIds THEN resp'.status = 404
                ELSE IF orders[id].userId = u THEN resp'.status = 200
                ELSE resp'.status = 403
          /\ \A status \in OrderStatus :
                /\ OrderPatchById(u, RoleIn(u), id, status) =>
                      IF RoleIn(u) # "ADMIN" THEN Refused(403)
                      ELSE IF id \notin OrderIds THEN Refused(404)
                      ELSE orders'[id].status = status
                /\ OrdersPatch(u, id, status) =>
                      IF RoleIn(u) \notin {"ADMIN", "STAFF"} THEN Refused(403)
                      ELSE IF id \notin OrderIds THEN Refused(404)
                      ELSE orders'[id].status = status]_vars

\* ------------------------------------------------------------------------
\* C16: add-to-cart of quantity q for product p is rejected, with the
\* cart's lines and total unchanged, when p does not exist or is inactive
\* or when q plus the quantity of p already in the cart exceeds p's stock;
\* otherwise it increments the line by q, or creates it with priceAtTime =
\* p's current price, and raises the total by price * q; so after a
\* successful add the line's quantity is at most p's stock.
\* ------------------------------------------------------------------------
InCart(cart, p) == IF cart.items[p].present THEN cart.items[p].quantity ELSE 0

AddContract ==
    [][\A s \in Users, p \in ProductIds, q \in AddQuantities :
          CartPost(s, p, q) =>
             IF \/ p \notin Products
                \/ ~product[p].isActive
                \/ q + InCart(carts[s], p) > product[p].stock
             THEN /\ resp'.status # 200
                  /\ carts'[s].items = carts[s].items
                  /\ carts'[s].total = carts[s].total
             ELSE /\ resp'.status = 200
                  /\ carts'[s].items[p].present
                  /\ carts'[s].items[p].quantity = InCart(carts[s], p) + q
                  /\ carts'[s].items[p].priceAtTime =
                        IF carts[s].items[p].present
                        THEN carts[s].items[p].priceAtTime ELSE product[p].price
                  /\ \A x \in Products \ {p} :
                        carts'[s].items[x] = carts[s].items[x]
                  /\ carts'[s].total = carts[s].total + product[p].price * q
                  /\ carts'[s].items[p].quantity <= product[p].stock]_vars

\* ------------------------------------------------------------------------
\* C17: PUT /cart with quantity 0 on a product in the cart leaves the cart
\* exactly as DELETE /cart for that product would; with a quantity above 0
\* it is rejected when the quantity exceeds the product's stock, and
\* otherwise it sets the line's quantity and changes the total by
\* (newQty - oldQty) * the line's priceAtTime.
\* ------------------------------------------------------------------------
PutContract ==
    [][\A s \in Users, p \in Products, q \in PutQuantities :
          (/\ CartPutBy({s}, {p}, {q})
           /\ carts[s].exists
           /\ carts[s].items[p].present
           /\ q >= 0) =>
             IF q = 0
             THEN /\ carts'[s] = RemoveItem(carts[s], p).cart
                  /\ resp'.status = RemoveItem(carts[s], p).status
                  /\ ~carts'[s].items[p].present
             ELSE IF q > product[p].stock
             THEN resp'.status = 400 /\ carts'[s] = carts[s]
             ELSE /\ resp'.status = 200
                  /\ carts'[s].items =
                        [carts[s].items EXCEPT ![p].quantity = q]
                  /\ carts'[s].total = carts[s].total +
                        (q - carts[s].items[p].quantity) *
                           carts[s].items[p].priceAtTime]_vars

\* a PUT of quantity 0 has just removed the last line of a cart
PutZeroRemoved ==
    \E s \in Users :
        /\ resp = Response("cart.PUT", s, 200)
        /\ carts[s].exists
        /\ Lines(carts[s]) = {}

\* ------------------------------------------------------------------------
\* C18: a bulk wishlist add of distinct product ids never fails because
\* some ids are already present or are unknown or inactive: it adds exactly
\* the requested active products not yet in the wishlist and reports
\* added, alreadyPresent and invalid, which sum to the number of requested
\* ids; and no product is twice in one wishlist.
\* ------------------------------------------------------------------------
BulkRequests == (SUBSET ProductIds) \ {{}}

NoProductTwice(w) ==
    \A u \in Users : Cardinality(ItemsOf(w, u)) = Cardinality(ProductsIn(w, u))

\* what a bulk add of ids by u owes: the rows added and the report
BulkAdded(u, ids) ==
    LET valid == ids \cap ActiveProducts
        had == ProductsIn(wishlists, u)
    IN  /\ resp'.status = 200
        /\ ProductsIn(wishlists', u) = had \cup valid
        /\ \A i \in wishlists.items : i \in wishlists'.items
        /\ \A i \in wishlists'.items \ wishlists.items :
              i.owner = u /\ i.productId \in valid \ had
        /\ resp'.added = Cardinality(valid \ had)
        /\ resp'.alreadyInWishlist = Cardinality(valid \cap had)
        /\ resp'.invalidProducts = ids \ valid
        /\ resp'.added + resp'.alreadyInWishlist
              + Cardinality(resp'.invalidProducts) = Cardinality(ids)
        /\ NoProductTwice(wishlists')

\* the claim as stated: every bulk add of distinct ids succeeds
BulkAddNeverFails ==
    [][\A u \in Users, ids \in BulkRequests :
          AddMultipleItems(u, ids) => BulkAdded(u, ids)]_vars

\* C18 as amended: a bulk add that names at least one active product
\* succeeds as above; one that names none is answered 404 "No valid
\* products found to add" and neither adds an item nor creates a wishlist.
BulkAddSkips ==
    [][\A u \in Users, ids \in BulkRequests :
          AddMultipleItems(u, ids) =>
             IF ids \cap ActiveProducts # {}
             THEN BulkAdded(u, ids)
             ELSE resp'.status = 404 /\ UNCHANGED wishlists]_vars

\* a bulk add has just added one product, skipped one already present and
\* reported one unknown id
BulkMixed ==
    /\ resp.op = "wishlist.bulk"
    /\ resp.status = 200
    /\ resp.added = 1
    /\ resp.alreadyInWishlist = 1
    /\ resp.invalidProducts = {UnknownProduct}

\* ------------------------------------------------------------------------
\* C19: every wishlist entry point fetches or creates the caller's default
\* wishlist: for a user without a wishlist, GET, POST of one product and
\* bulk add each create it and proceed; a first POST of an active product
\* succeeds and leaves the product in the user's wishlist.
\* ------------------------------------------------------------------------
FetchOrCreate ==
    [][\A u \in Users :
          u \notin wishlists.lists =>
             /\ WishlistGet(u, TRUE) =>
                   resp'.status = 200 /\ u \in wishlists'.lists
             /\ \A p \in ActiveProducts :
                   WishlistPost(u, p) =>
                      /\ resp'.status = 200
                      /\ u \in wishlists'.lists
                      /\ p \in ProductsIn(wishlists', u)
             /\ \A ids \in BulkRequests :
                   ids \cap ActiveProducts # {} /\ AddMultipleItems(u, ids) =>
                      /\ resp'.status = 200
                      /\ u \in wishlists'.lists
                      /\ ProductsIn(wishlists', u) = ids \cap ActiveProducts]_vars

\* ------------------------------------------------------------------------
\* C20: PATCH /wishlist on an item id that is not in a wishlist owned by
\* the caller fails as NotFound (404) and changes no item's rating or
\* notes; an item's rating and notes are only changed by requests of the
\* user who owns its wishlist; a stored rating is null or an integer 1..5.
\* ------------------------------------------------------------------------
Owns(u, itemId) == \E i \in wishlists.items : i.id = itemId /\ i.owner = u

\* the step is a rating request of user u
RatedBy(u) ==
    \E itemId \in ItemIds, rating \in RatingInputs, notes \in NotesInputs :
        WishlistPatch(u, itemId, rating, notes)

\* a valid rating request for an item the caller does not own is answered
\* with the status and leaves every row alone
NotOwnedAnswered(status) ==
    \A u \in Users, itemId \in ItemIds \ {0}, notes \in NotesInputs,
       rating \in {r \in RatingInputs : ValidRating(r)} :
        WishlistPatch(u, itemId, rating, notes) /\ ~Owns(u, itemId) =>
           resp'.status = status /\ UNCHANGED wishlists

OnlyOwnerRates ==
    /\ \A i \in wishlists.items, j \in wishlists'.items :
          (/\ i.id = j.id
           /\ i.productId = j.productId
           /\ (i.owner # j.owner \/ i.rating # j.rating \/ i.notes # j.notes)) =>
              i.owner = j.owner /\ RatedBy(i.owner)
    /\ \A j \in wishlists'.items :
          j.rating.isNull \/ j.rating.value \in 1..5

\* the claim as stated: the answer is 404
RateOwnItems == [][NotOwnedAnswered(404) /\ OnlyOwnerRates]_vars

\* C20 as amended: the request fails with 400 "Wishlist item not found or
\* you don't have permission"; the rest as stated.
RateOwnItemsBadRequest == [][NotOwnedAnswered(400) /\ OnlyOwnerRates]_vars

\* u2's rating request has just been refused while u1's wishlist holds an
\* item that u1 has rated and annotated
RatingRefused ==
    /\ resp = Response("wishlist.PATCH", "u2", 400)
    /\ "u2" \in wishlists.lists
    /\ \E i \in wishlists.items :
          i.owner = "u1" /\ i.rating = Rated(4) /\ i.notes = "gift"

\* ------------------------------------------------------------------------
\* C21: once product p is in a user's wishlist, whichever add path put it
\* there and whether GET or the bulk add created the wishlist, DELETE
\* /wishlist with p removes p's item from that wishlist and leaves all
\* other items unchanged.
\* ------------------------------------------------------------------------
AddThenRemove ==
    [][\A u \in Users, p \in Products :
          WishlistDelete(u, p) /\ p \in ProductsIn(wishlists, u) =>
             /\ resp'.status = 200
             /\ p \notin ProductsIn(wishlists', u)
             /\ wishlists'.items =
                   {i \in wishlists.items : ~(i.owner = u /\ i.productId = p)}]_vars

\* C22: the response of POST /auth/logout clears the accessToken and the
\* refreshToken cookie of the browser, and a request that relies on the
\* cleared cookies (a gated catalogue write, POST /auth/refresh) is answered
\* with 401.
LogoutClears ==
    [][/\ Logout => cookies' = NoCookies
       /\ cookies = NoCookies /\ (CookieWrite \/ CookieRefresh) =>
             resp'.status = 401]_vars

\* C23: the InventoryLog is append-only: every step keeps each entry that
\* was already written, with its type and its quantity, and only adds
\* entries after them.
LogAppendOnly ==
    [][\A p \in Products :
          /\ Len(inventoryLogs'[p]) >= Len(inventoryLogs[p])
          /\ \A i \in 1..Len(inventoryLogs[p]) :
                inventoryLogs'[p][i] = inventoryLogs[p][i]]_vars

\* C24: on PATCH /orders and on PATCH /orders/{id}, an update into SHIPPED
\* sets shippedAt, one into DELIVERED sets deliveredAt and one into CANCELLED
\* sets cancelledAt, so every order that is SHIPPED, DELIVERED or CANCELLED
\* after an update has the timestamp of that status.
StatusStamped ==
    \A id \in OrderIds :
        /\ orders[id].status = "SHIPPED" => orders[id].shippedAt # NULL
        /\ orders[id].status = "DELIVERED" => orders[id].deliveredAt # NULL
        /\ orders[id].status = "CANCELLED" => orders[id].cancelledAt # NULL

\* C25: product creations, stock updates and committed checkouts keep every
\* product's stock field equal to the balance of its InventoryLog (STOCK_IN
\* quantities minus the quantities of all other entries): a step from a state
\* in which the two agree leads to a state in which they agree, so the stock
\* check of add-to-cart and the stock check of checkout give the same answer.
StockIsBalance == \A p \in Products : product[p].stock = CurrentStock(inventoryLogs[p])

StockMatchesLog == [][StockIsBalance => StockIsBalance']_vars

\* C26: whatever quantities the cart requests carry (0 and negative numbers
\* to add-item included), every line of every cart has a quantity of at
\* least 1 and every cart total is at least 0.
CartLinesPositive ==
    \A u \in Users :
        /\ \A p \in Lines(carts[u]) : carts[u].items[p].quantity >= 1
        /\ carts[u].total >= 0

\* C27: the order that a checkout creates has one order item per cart line,
\* with the line's product and quantity, and its subtotal is the sum of
\* price * quantity over its order items, also when the product's price was
\* changed after the line was added to the cart.
OrderItemsTotal(o) ==
    SumOver({it.productId : it \in o.items},
            [p \in Products |->
               LET its == {it \in o.items : it.productId = p}
               IN  IF its = {} THEN 0
                   ELSE LET it == CHOOSE x \in its : TRUE
                        IN  it.price * it.quantity])

OrderMatchesCart ==
    [][\A u \in Users :
          /\ pc[u] = "tx"
          /\ Len(orders') = Len(orders) + 1
          /\ orders'[Len(orders')].userId = u
          => LET o == orders'[Len(orders')] IN
             /\ Cardinality(o.items) = Cardinality(Lines(carts[u]))
             /\ {<<it.productId, it.quantity>> : it \in o.items} =
                   {<<p, carts[u].items[p].quantity>> : p \in Lines(carts[u])}
             /\ o.subtotal = OrderItemsTotal(o)]_vars

\* C28: when two cart mutations of one user (add, set-quantity, remove)
\* interleave at their store calls, then once both are answered the cart has
\* at most one line per product and its stored total is the sum of
\* priceAtTime * quantity over its lines.
BothAnswered == \A s \in Slots : inflight.reqs[s].stage = "done"

NoLostUpdate ==
    \A u \in Shopper :
        BothAnswered /\ inflight.reqs # NoRequests.reqs =>
            /\ inflight.twins = {}
            /\ carts[u].total = ItemsTotal(carts[u])

OnlyAdminsAdminister ==
    [][/\ \A token \in Presented, target \in Accounts :
             /\ token \in issued => userRows[token.userId].role # "ADMIN"
             /\ \/ UserDelete(token, target)
                \/ \E role \in AssignableRoles : UserRolePatch(token, target, role)
                \/ \E data \in UserData : UserPatch(token, target, data)
             => userRows' = userRows
       /\ \A token \in issued, role \in AssignableRoles :
             /\ userRows[token.userId].role = "ADMIN"
             /\ UserRolePatch(token, token.userId, role)
             => userRows'[token.userId].role = "ADMIN"]_vars

====
